---- MODULE Spec2Model ----
(***************************************************************************)
(* A model of build_components/__main__.py: the component dependency graph *)
(* (validate_component_dependencies), the build order and dispatch loop    *)
(* of build_components, and the values BuildInfo derives from a            *)
(* component.yaml (user_info, language_version, dependencies).             *)
(*                                                                         *)
(* The file system (component directories, component.yaml declarations)    *)
(* is part of the state; the arguments of build_components, the files      *)
(* looked at during a dispatch and the outcome of "docker build" are       *)
(* inputs drawn when the code reads them.                                  *)
(***************************************************************************)
EXTENDS Integers, Sequences, FiniteSets, TLC

\* ------------------------------------------------------------- bounds
\* The names that may be requested or declared as a dependency; "ghost" is
\* never a directory under components/, the others may be.
Names == {"shared", "api", "worker", "ghost"}
Components == Names \ {"ghost"}

\* Total number of dependency entries over all component.yaml files.
MaxEdges == 3
\* Length of an explicit component list given to build_components.
MaxRequest == 2
\* Length of lamp["docker_images"].
MaxImages == 2
\* Length of a language.version string.
MaxVerLen == 2

\* ------------------------------------------------------------ helpers
Range(s) == {s[i] : i \in 1..Len(s)}

\* The sequences that list every element of S exactly once.
Orders(S) == {s \in [1..Cardinality(S) -> S] : Range(s) = S}

\* The sequences without repetition of at most n elements of S.
DistinctSeqs(S, n) ==
    {s \in UNION {[1..k -> S] : k \in 0..n} : Cardinality(Range(s)) = Len(s)}

IndexOf(s, x) == CHOOSE i \in 1..Len(s) : s[i] = x

\* Python's `[x for x in s if x in keep]`.
Filter(s, keep) == SelectSeq(s, LAMBDA x : x \in keep)

\* ------------------------------------------------ networkx.DiGraph
\* A DiGraph keeps its nodes and, per node, its successors in insertion
\* order: nodes is the node dict's order, edges the order edges were added.
EmptyGraph == [nodes |-> <<>>, edges |-> <<>>]

add_node(G, n) ==
    IF n \in Range(G.nodes) THEN G ELSE [G EXCEPT !.nodes = Append(@, n)]

RECURSIVE add_nodes_from(_, _)
add_nodes_from(G, ns) ==
    IF ns = <<>> THEN G ELSE add_nodes_from(add_node(G, Head(ns)), Tail(ns))

\* add_edge(u, v) adds u, then v, when missing; an edge is kept once.
add_edge(G, u, v) ==
    LET H == add_node(add_node(G, u), v)
    IN  IF <<u, v>> \in Range(H.edges) THEN H
        ELSE [H EXCEPT !.edges = Append(@, <<u, v>>)]

\* add_edges_from((dependency, component) for dependency in deps)
RECURSIVE add_edges_from(_, _, _)
add_edges_from(G, deps, component) ==
    IF deps = <<>> THEN G
    ELSE add_edges_from(add_edge(G, Head(deps), component), Tail(deps), component)

\* G.neighbors(n): the successors of n, in the order their edges were added.
RECURSIVE Seconds(_)
Seconds(es) == IF es = <<>> THEN <<>> ELSE <<Head(es)[2]>> \o Seconds(Tail(es))
neighbors(G, n) == Seconds(SelectSeq(G.edges, LAMBDA e : e[1] = n))

in_degree(G, n) == Cardinality({e \in Range(G.edges) : e[2] = n})

\* networkx.algorithms.cycles.find_cycle(G): a depth-first search from each
\* node in node order; the first edge that closes on the current path gives
\* the cycle, returned as its list of edges.  <<>> stands for NetworkXNoCycle.
RECURSIVE PathEdges(_, _)
PathEdges(path, i) ==
    IF i >= Len(path) THEN <<>>
    ELSE <<<<path[i], path[i + 1]>>>> \o PathEdges(path, i + 1)

RECURSIVE CycleDfs(_, _, _)
CycleDfs(G, path, kids) ==
    IF kids = <<>> THEN <<>>
    ELSE LET k == Head(kids)
         IN  IF k \in Range(path)
             THEN PathEdges(Append(path, k), IndexOf(path, k))
             ELSE LET found == CycleDfs(G, Append(path, k), neighbors(G, k))
                  IN  IF found # <<>> THEN found
                      ELSE CycleDfs(G, path, Tail(kids))

RECURSIVE CycleFrom(_, _)
CycleFrom(G, starts) ==
    IF starts = <<>> THEN <<>>
    ELSE LET found == CycleDfs(G, <<Head(starts)>>, neighbors(G, Head(starts)))
         IN  IF found # <<>> THEN found ELSE CycleFrom(G, Tail(starts))

\* find_cycle that sees only an edge from a node to itself.
find_cycle_self_loops(G) ==
    LET loops == SelectSeq(G.edges, LAMBDA e : e[1] = e[2])
    IN  IF loops = <<>> THEN <<>> ELSE <<Head(loops)>>

find_cycle(G) == CycleFrom(G, G.nodes)

\* networkx.algorithms.dag.topological_sort(G): Kahn's algorithm.  The
\* nodes of in-degree zero start the queue in node order; a node taken from
\* the front lowers the in-degree of its successors, and those that reach
\* zero join the back in neighbour order.
RECURSIVE Kahn(_, _, _, _)
Kahn(G, indegree, queue, out) ==
    IF queue = <<>> THEN out
    ELSE LET node == Head(queue)
             kids == neighbors(G, node)
             lowered == [m \in DOMAIN indegree |->
                            IF m \in Range(kids) THEN indegree[m] - 1 ELSE indegree[m]]
             ready == SelectSeq(kids, LAMBDA c : lowered[c] = 0)
         IN  Kahn(G, lowered, Tail(queue) \o ready, Append(out, node))

topological_sort(G) ==
    LET indegree == [n \in Range(G.nodes) |-> in_degree(G, n)]
    IN  Kahn(G, indegree, SelectSeq(G.nodes, LAMBDA n : indegree[n] = 0), <<>>)

\* networkx.algorithms.dag.ancestors(G, source): a breadth-first search
\* along the edges backwards; the source itself is left out.
RECURSIVE BackSearch(_, _, _)
BackSearch(G, seen, frontier) ==
    IF frontier = {} THEN seen
    ELSE LET preds == {e[1] : e \in {d \in Range(G.edges) : d[2] \in frontier}}
         IN  BackSearch(G, seen \cup frontier, preds \ (seen \cup frontier))

\* ancestors that stops at the direct predecessors.
ancestors_parents(G, source) == {e[1] : e \in {d \in Range(G.edges) : d[2] = source}}

ancestors(G, source) == BackSearch(G, {}, {source}) \ {source}

\* G.subgraph(nodes): the nodes and the edges between them.  The view's
\* iteration order is the order of the graph or of the node set given,
\* whichever networkx finds shorter, so the node order is an input.
subgraph(G, order) ==
    [nodes |-> order,
     edges |-> SelectSeq(G.edges, LAMBDA e : e[1] \in Range(order) /\ e[2] \in Range(order))]

\* ------------------------------------------------- component.yaml values
\* Values read from a component.yaml are kept as strings: UNDEFINED is the
\* Undefined sentinel, "True" and "False" the YAML booleans.
UNDEFINED == "UNDEFINED"

\* bool(v) of Python: the sentinel, False and the empty string are falsy.
Truthy(v) == v \notin {UNDEFINED, "False", ""}

\* Python's `a or b`.
Or(a, b) == IF Truthy(a) THEN a ELSE b

PyBool(b) == IF b THEN "True" ELSE "False"

\* A string whose characters matter (a version) is the sequence of them;
\* the empty sequence stands for UNDEFINED where such a string is expected
\* (ComponentConfig.language_version never returns the empty string).
Digit == <<"0", "1", "2", "3", "4", "5", "6", "7", "8", "9">>

\* str(n) for a YAML integer n >= 0.
RECURSIVE str(_)
str(n) == IF n < 10 THEN <<Digit[n + 1]>> ELSE str(n \div 10) \o <<Digit[(n % 10) + 1]>>

\* s.startswith(prefix)
startswith(s, prefix) == Len(s) >= Len(prefix) /\ SubSeq(s, 1, Len(prefix)) = prefix

\* s.lower() over the language names in use.
lower(s) == IF s = "Python" THEN "python" ELSE s

\* f"/home/{name}" over the user names in use.
HomeOf(name) ==
    CASE name = "aladdin-user" -> "/home/aladdin-user"
      [] name = "svc" -> "/home/svc"
      [] OTHER -> "/home/"

\* language.version as YAML gives it: not set, a string, or an integer.
NoVersion == [t |-> "undefined", s |-> <<>>, n |-> 0]
StrVersion(chars) == [t |-> "str", s |-> chars, n |-> 0]
IntVersion(k) == [t |-> "int", s |-> <<>>, n |-> k]

\* ------------------------------------------------------ ComponentConfig
\* ComponentConfig.language_name
language_name(config) ==
    IF Truthy(config.language_name) THEN lower(config.language_name) ELSE UNDEFINED

\* ComponentConfig.language_version: str(version) if version else UNDEFINED
config_language_version(config) ==
    LET version == config.language_version
    IN  CASE version.t = "str" /\ version.s # <<>> -> version.s
          [] version.t = "int" /\ version.n # 0 -> str(version.n)
          [] OTHER -> <<>>

\* ComponentConfig.image_user_info
image_user_info(config) ==
    [create |-> config.user_create, name |-> config.user_name,
     group |-> config.user_group, home |-> config.user_home,
     sudo |-> config.user_sudo]

\* ------------------------------------------------------------ BuildInfo
default_python_version == <<"3", ".", "8">>

\* BuildInfo.language_version
language_version(config) ==
    IF config_language_version(config) # <<>>
    THEN config_language_version(config)
    ELSE default_python_version

\* dev that takes every build for a local one.
dev_always(tag_hash) == TRUE

\* BuildInfo.dev
dev(tag_hash) == tag_hash = "local"

\* BuildInfo.user_info; raised stands for the ConfigurationException.
user_info(config, tag_hash) ==
    LET given == image_user_info(config)
        name == "aladdin-user"
    IN  IF config.image_base # UNDEFINED /\ ~Truthy(given.name)
        THEN [raised |-> TRUE, create |-> "", name |-> "", group |-> "",
              home |-> "", sudo |-> ""]
        ELSE [raised |-> FALSE,
              create |-> Or(given.create, PyBool(config.image_base = UNDEFINED)),
              name |-> Or(given.name, name),
              group |-> Or(given.group, Or(given.name, name)),
              home |-> Or(given.home, HomeOf(Or(given.name, name))),
              sudo |-> IF given.sudo = UNDEFINED THEN PyBool(dev(tag_hash))
                       ELSE given.sudo]

\* BuildInfo.dependencies: the ancestors of the component in the graph,
\* topologically sorted; order is the subgraph view's node order.
dependencies(component_graph, component, order) ==
    topological_sort(subgraph(component_graph, order))

\* BuildInfo.components
components_of(component_graph, component, order) ==
    Append(dependencies(component_graph, component, order), component)

\* ---------------------------------------------------------------- state
VARIABLES
    directories,      \* the component directories under components/
    declared,         \* per name, the `dependencies` list of its component.yaml
    pc,               \* "start", "build", "done" (returned), "failed" (raised)
    lamp,             \* the lamp argument: name and docker_images
    tag_hash,         \* the tag_hash argument
    argument,         \* the components argument as passed (<<>>: none)
    selected,         \* `components` as selected, before it is put in order
    components,       \* `components`: after line 346, the build sequence
    component_graph,  \* the graph validate_component_dependencies returned
    position,         \* index in components of the next component to build
    dispatched,       \* the components a build function was called for
    backend,          \* the "docker build" calls made, with their outcome
    build_info,       \* the values of the BuildInfo built last
    component_config, \* the component.yaml build_aladdin_component read last
    rerun,            \* what a second run on the same inputs computes
    log,              \* the logger's messages
    error             \* the exception build_components raised

vars == <<directories, declared, pc, lamp, tag_hash, argument, selected, components,
          component_graph, position, dispatched, backend, build_info, component_config,
          rerun, log, error>>

NoError == [type |-> "none", component |-> "", cycles |-> <<>>, value |-> <<>>]
Raise(type, component, cycles, value) ==
    [type |-> type, component |-> component, cycles |-> cycles, value |-> value]

\* The component.yaml read for a build in the dispatch loop.  The keys that
\* decide the control flow vary; the image.* keys vary under SpecInfo.
DefaultConfig ==
    [language_name |-> UNDEFINED, language_version |-> NoVersion,
     image_base |-> UNDEFINED, user_create |-> UNDEFINED, user_name |-> UNDEFINED,
     user_group |-> UNDEFINED, user_home |-> UNDEFINED, user_sudo |-> UNDEFINED]

NoUserInfo == [raised |-> FALSE, create |-> "", name |-> "", group |-> "",
               home |-> "", sudo |-> ""]
NoBuildInfo == [component |-> "", config |-> DefaultConfig, dependencies |-> <<>>,
                components |-> <<>>, language_version |-> <<>>, dev |-> FALSE,
                user_info |-> NoUserInfo]

NoRerun == [ran |-> FALSE, error |-> "none", components |-> <<>>]

Message(level, text, component, list) ==
    [level |-> level, text |-> text, component |-> component, list |-> list]

\* ------------------------------------------------------------ inputs
project == "proj"

\* A docker image name with the split that startswith() and the slice of
\* line 328 see: text = prefix + rest.
Image(prefix, rest, text) == [prefix |-> prefix, rest |-> rest, text |-> text]
Images ==
    {Image("proj-", "api", "proj-api"), Image("proj-", "worker", "proj-worker"),
     Image("other-", "api", "other-api")}

ImageLists == UNION {[1..k -> Images] : k \in 0..MaxImages}

\* The order the names of one `dependencies` list are written in.
Rank(n) == CASE n = "shared" -> 1 [] n = "api" -> 2 [] n = "worker" -> 3 [] OTHER -> 4

\* The dependency declarations: every way to write at most MaxEdges entries
\* into the component.yaml files, no name twice in one list and each list in
\* the order of Rank.
RECURSIVE Entries(_, _)
Entries(f, S) ==
    IF S = {} THEN 0
    ELSE LET c == CHOOSE x \in S : TRUE IN Len(f[c]) + Entries(f, S \ {c})

RECURSIVE Declarations(_)
Declarations(n) ==
    IF n = 0 THEN {[c \in Names |-> <<>>]}
    ELSE LET fewer == Declarations(n - 1)
             full == {g \in fewer : Entries(g, Names) = n - 1}
         IN  fewer \cup UNION {{[f EXCEPT ![c] = Append(@, d)] :
                                   d \in {x \in Names : \A y \in Range(f[c]) : Rank(y) < Rank(x)}} :
                                  f \in full, c \in Names}

VersionChars == {"2", "3", "."}
Versions ==
    {NoVersion} \cup {IntVersion(k) : k \in {0, 2, 3, 30}}
    \cup {StrVersion(s) : s \in UNION {[1..k -> VersionChars] : k \in 1..MaxVerLen}}

LoopConfigs ==
    {DefaultConfig, [DefaultConfig EXCEPT !.language_version = StrVersion(<<"2">>)],
     [DefaultConfig EXCEPT !.language_name = "ruby"]}

AllConfigs ==
    [language_name : {UNDEFINED, "Python", "ruby"},
     language_version : Versions,
     image_base : {UNDEFINED, "alpine"},
     user_create : {UNDEFINED, "True", "False"},
     user_name : {UNDEFINED, "svc"},
     user_group : {UNDEFINED, "staff"},
     user_home : {UNDEFINED, "/srv"},
     user_sudo : {UNDEFINED, "True", "False"}]

\* ----------------------------------------------------------------- Init
Init ==
    /\ directories \in SUBSET Components
    /\ declared \in {f \in Declarations(MaxEdges) :
                        \A c \in Names \ directories : f[c] = <<>>}
    /\ pc = "start"
    /\ lamp = [name |-> project, docker_images |-> <<>>]
    /\ tag_hash = ""
    /\ argument = <<>>
    /\ selected = <<>>
    /\ components = <<>>
    /\ component_graph = EmptyGraph
    /\ position = 0
    /\ dispatched = <<>>
    /\ backend = <<>>
    /\ build_info = NoBuildInfo
    /\ component_config = DefaultConfig
    /\ rerun = NoRerun
    /\ log = <<>>
    /\ error = NoError

\* ------------------------------------------- validate_component_dependencies
\* read_component_config(component).dependencies: [] without a component.yaml.
config_dependencies(component) ==
    IF component \in Names THEN declared[component] ELSE <<>>

RECURSIVE AddDeclared(_, _)
AddDeclared(G, comps) ==
    IF comps = <<>> THEN G
    ELSE AddDeclared(add_edges_from(G, config_dependencies(Head(comps)), Head(comps)),
                     Tail(comps))

\* Lines 391-397: the graph over the selected components and what they declare.
build_graph(comps) == AddDeclared(add_nodes_from(EmptyGraph, comps), comps)

\* The result of validate_component_dependencies: the graph, or the cycle
\* found, which the ConfigurationException carries.
validate_component_dependencies(comps) ==
    LET G == build_graph(comps)
    IN  [graph |-> G, cycles |-> find_cycle(G)]

\* ------------------------------------------------------ build_components
\* Lines 326-330: the published components, image[startswith and len(prefix):].
published(image) ==
    IF image.prefix = "proj-" THEN image.rest ELSE image.text

\* The check of lines 332-334 made for the first component only.
first_missing_head(comps, all_components) ==
    IF comps # <<>> /\ Head(comps) \notin Range(all_components) THEN Head(comps) ELSE ""

\* Lines 332-334: the first selected component that is no directory.
RECURSIVE first_missing(_, _)
first_missing(comps, all_components) ==
    IF comps = <<>> THEN ""
    ELSE IF Head(comps) \notin Range(all_components) THEN Head(comps)
    ELSE first_missing(Tail(comps), all_components)

\* The topological order without the filter of line 349.
build_order_unfiltered(G, comps) == topological_sort(G)

\* Lines 346-350: the topological order, kept to the selected components.
build_order(G, comps) == Filter(topological_sort(G), Range(comps))

\* Lines 313-350, up to the loop.  all_components is os.listdir's list of
\* the directories; chosen is the set of line 327 in its iteration order.
build_components(tag, given, images, all_components, chosen) ==
    /\ pc = "start"
    /\ tag_hash' = tag
    /\ argument' = given
    /\ lamp' = [lamp EXCEPT !.docker_images = images]
    /\ LET comps == IF given # <<>> THEN given
                    ELSE IF tag = "local" THEN all_components
                    ELSE chosen
           missing == first_missing(comps, all_components)
           checked == validate_component_dependencies(comps)
       IN  /\ selected' = comps
           /\ IF missing # ""
              THEN /\ error' = Raise("ValueError", missing, <<>>, <<>>)
                   /\ pc' = "failed"
                   /\ UNCHANGED <<components, component_graph, log, position>>
              ELSE IF comps = <<>>
              THEN /\ log' = Append(log, Message("info", "No components found", "", <<>>))
                   /\ pc' = "done"
                   /\ UNCHANGED <<components, component_graph, error, position>>
              ELSE IF checked.cycles # <<>>
              THEN /\ log' = Append(log, Message("error", "Cycle(s) found", "", <<>>))
                   /\ error' = Raise("ConfigurationException", "", checked.cycles, <<>>)
                   /\ pc' = "failed"
                   /\ UNCHANGED <<components, component_graph, position>>
              ELSE /\ component_graph' = checked.graph
                   /\ components' = build_order(checked.graph, comps)
                   /\ position' = 1
                   /\ pc' = "build"
                   /\ UNCHANGED <<log, error>>
    /\ UNCHANGED <<directories, declared, dispatched, backend, build_info,
                   component_config, rerun>>

\* os.listdir gives the directories in an order of its own; only a local
\* build without a component list depends on it.
Listing == CHOOSE s \in Orders(directories) : TRUE

\* build_components called with an explicit component list.
CallExplicit ==
    \E tag \in {"local", "ci"}, given \in DistinctSeqs(Names, MaxRequest) \ {<<>>} :
        build_components(tag, given, <<>>, Listing, <<>>)

\* build_components called without a list, for a local build.
CallLocal ==
    \E listing \in Orders(directories) :
        build_components("local", <<>>, <<>>, listing, <<>>)

\* build_components called without a list, for a build to publish.
CallPublish ==
    \E images \in ImageLists :
        \E chosen \in Orders({published(images[i]) : i \in 1..Len(images)}) :
            build_components("ci", <<>>, images, Listing, chosen)

\* --------------------------------------------------------- docker build
\* _docker_build(tags=...): one call of the backend and whether it succeeded.
docker_build(component, label, ok) == [component |-> component, label |-> label, ok |-> ok]

Outcome(err, calls, info) == [error |-> err, calls |-> calls, info |-> info]

\* build_traditional_component that ignores the exit status of docker build.
build_traditional_component_unchecked(component, tag, ok) ==
    Outcome(NoError, <<docker_build(component, tag, ok)>>, NoBuildInfo)

\* build_traditional_component, lines 438-442.
build_traditional_component(component, tag, ok) ==
    Outcome(IF ok THEN NoError ELSE Raise("CalledProcessError", component, <<>>, <<>>),
            <<docker_build(component, tag, ok)>>, NoBuildInfo)

\* BuildInfo(...) of lines 474-484 with the values its properties give.
BuildInfo(component, config, tag, G, order) ==
    [component |-> component, config |-> config,
     dependencies |-> dependencies(G, component, order),
     components |-> components_of(G, component, order),
     language_version |-> language_version(config),
     dev |-> dev(tag),
     user_info |-> user_info(config, tag)]

\* Line 487: the version check.
supported_version(version) == startswith(version, <<"3">>)

\* build_python_component, then build_python_editor_image for a local build
\* (lines 493-497).  Rendering the Dockerfile template reads user_info.
build_python(info, tag, ok, edited) ==
    IF info.user_info.raised
    THEN Outcome(Raise("ConfigurationException", info.component, <<>>, <<>>), <<>>, info)
    ELSE IF ~ok
    THEN Outcome(Raise("CalledProcessError", info.component, <<>>, <<>>),
                 <<docker_build(info.component, tag, FALSE)>>, info)
    ELSE IF tag # "local"
    THEN Outcome(NoError, <<docker_build(info.component, tag, TRUE)>>, info)
    ELSE Outcome(IF edited THEN NoError
                 ELSE Raise("CalledProcessError", info.component, <<>>, <<>>),
                 <<docker_build(info.component, tag, TRUE),
                   docker_build(info.component, "editor", edited)>>, info)

\* build_aladdin_component, lines 466-501.  In the else branch the message
\* reads language_version, which is assigned only in the python branch.
build_aladdin_component(component, config, tag, G, order, ok, edited) ==
    LET language == Or(language_name(config), "python")
        info == BuildInfo(component, config, tag, G, order)
    IN  IF language = "python"
        THEN IF ~supported_version(info.language_version)
             THEN Outcome(Raise("ValueError", component, <<>>, info.language_version),
                          <<>>, info)
             ELSE build_python(info, tag, ok, edited)
        ELSE Outcome(Raise("UnboundLocalError", "", <<>>, <<>>), <<>>, NoBuildInfo)

\* Lines 357-373: the build function the files of the component select.
build_one(component, yaml, dockerfile, config, tag, G, order, ok, edited) ==
    IF yaml THEN build_aladdin_component(component, config, tag, G, order, ok, edited)
    ELSE IF dockerfile THEN build_traditional_component(component, tag, ok)
    ELSE Outcome(Raise("ConfigurationException", component, <<>>, <<>>), <<>>, NoBuildInfo)

\* One round of the loop of lines 353-381, with the loop's else clause
\* after the last round.
build_component(configs) ==
    /\ pc = "build"
    /\ position <= Len(components)
    /\ LET component == components[position]
       IN  \E yaml \in BOOLEAN :
           \E dockerfile \in IF yaml THEN {FALSE} ELSE BOOLEAN,
              config \in IF yaml THEN configs ELSE {DefaultConfig},
              order \in IF yaml THEN Orders(ancestors(component_graph, component))
                        ELSE {<<>>} :
           \E ok \in IF yaml \/ dockerfile THEN BOOLEAN ELSE {TRUE} :
           \E edited \in IF yaml /\ ok /\ tag_hash = "local" THEN BOOLEAN ELSE {TRUE} :
            /\ config_dependencies(component) # <<>> => yaml
            /\ LET out == build_one(component, yaml, dockerfile, config, tag_hash,
                                    component_graph, order, ok, edited)
                   started == Append(log, Message("notice", "Starting build", component, <<>>))
               IN  /\ dispatched' = Append(dispatched, component)
                   /\ backend' = backend \o out.calls
                   /\ build_info' = out.info
                   /\ component_config' = IF yaml THEN config ELSE component_config
                   /\ error' = out.error
                   /\ IF out.error # NoError
                      THEN /\ log' = Append(started,
                                        Message("error", "Failed to build image", component, <<>>))
                           /\ pc' = "failed"
                           /\ UNCHANGED position
                      ELSE /\ position' = position + 1
                           /\ IF position = Len(components)
                              THEN /\ log' = started \o
                                        <<Message("success", "Built image", component, <<>>),
                                          Message("success", "Built images", "", components)>>
                                   /\ pc' = "done"
                              ELSE /\ log' = Append(started,
                                                Message("success", "Built image", component, <<>>))
                                   /\ pc' = "build"
    /\ UNCHANGED <<directories, declared, lamp, tag_hash, argument, selected, components,
                   component_graph, rerun>>

\* -------------------------------------------------------- specifications
Next ==
    \/ CallExplicit
    \/ CallLocal
    \/ CallPublish
    \/ build_component(LoopConfigs)

Spec == Init /\ [][Next]_vars

\* Lines 332-350 as a second process runs them on a selection: the error it
\* raises, or the build sequence its loop goes through.
build_components_plan(comps, all_components) ==
    IF first_missing(comps, all_components) # ""
    THEN [ran |-> TRUE, error |-> "ValueError", components |-> <<>>]
    ELSE IF comps = <<>>
    THEN [ran |-> TRUE, error |-> "none", components |-> <<>>]
    ELSE LET checked == validate_component_dependencies(comps)
         IN  IF checked.cycles # <<>>
             THEN [ran |-> TRUE, error |-> "ConfigurationException", components |-> <<>>]
             ELSE [ran |-> TRUE, error |-> "none",
                   components |-> build_order(checked.graph, comps)]

\* build_components run once more, in a new process, after a run that built
\* everything: the same lamp, tag_hash and components argument, the same
\* directories and component.yaml files, and os.listdir's list as before.
\* The set of lines 327-330 is built anew, and a set of strings iterates in
\* the order the hash seed of the process gives it.
build_components_again ==
    /\ pc = "done"
    /\ ~rerun.ran
    /\ \E chosen \in Orders(Range(selected)) :
          LET comps == IF argument # <<>> THEN argument
                       ELSE IF tag_hash = "local" THEN selected
                       ELSE chosen
              all_components == IF argument = <<>> /\ tag_hash = "local"
                                THEN selected ELSE Listing
          IN  rerun' = build_components_plan(comps, all_components)
    /\ UNCHANGED <<directories, declared, pc, lamp, tag_hash, argument, selected,
                   components, component_graph, position, dispatched, backend,
                   build_info, component_config, log, error>>

NextRuns ==
    \/ Next
    \/ build_components_again

SpecRuns == Init /\ [][NextRuns]_vars

\* The runs that resolve one component.yaml in every way: a single
\* component directory, and every configuration of AllConfigs read for it.
InitInfo ==
    /\ Init
    /\ directories = {"api"}
    /\ declared = [c \in Names |-> <<>>]

NextInfo ==
    \/ CallExplicit
    \/ CallLocal
    \/ CallPublish
    \/ build_component(AllConfigs)

SpecInfo == InitInfo /\ [][NextInfo]_vars

\* ------------------------------------------------- notions the claims use
\* The declared dependency edges (dependency, dependent) of all component.yaml
\* files, and of the files of the components in S.
DeclaredEdges(S) ==
    {e \in Names \X Names :
        e[2] \in S /\ \E i \in 1..Len(declared[e[2]]) : declared[e[2]][i] = e[1]}

\* The transitive closure of a relation over the names.
RECURSIVE Closure(_)
Closure(R) ==
    LET step == R \cup {p \in Names \X Names :
                           \E b \in Names : <<p[1], b>> \in R /\ <<b, p[2]>> \in R}
    IN  IF step = R THEN R ELSE Closure(step)

Acyclic(R) == LET closed == Closure(R) IN \A n \in Names : <<n, n>> \notin closed

NoRepeat(s) == \A i, j \in 1..Len(s) : s[i] = s[j] => i = j

\* es is a closed chain of edges of R.
IsCycle(es, R) ==
    /\ es # <<>>
    /\ \A i \in 1..Len(es) : es[i] \in R
    /\ \A i \in 1..(Len(es) - 1) : es[i][2] = es[i + 1][1]
    /\ es[Len(es)][2] = es[1][1]

Logged(level, text, component) ==
    \E i \in 1..Len(log) :
        log[i].level = level /\ log[i].text = text /\ log[i].component = component

\* The text of a version before its first ".".
RECURSIVE Major(_)
Major(v) ==
    IF v = <<>> \/ Head(v) = "." THEN <<>> ELSE <<Head(v)>> \o Major(Tail(v))

AllDeclared == DeclaredEdges(Names)

\* ------------------------------------------------------------------ C1
\* C1 (as claimed): when the declarations are acyclic, every requested
\* component that a dispatched component depends on, directly or through
\* other components' declarations, was dispatched before it.
C1_RequestedAncestorsFirst ==
    (dispatched # <<>> /\ Acyclic(AllDeclared)) =>
        LET depends == Closure(AllDeclared)
        IN  \A j \in 1..Len(dispatched) :
                \A d \in Range(selected) :
                    <<d, dispatched[j]>> \in depends =>
                        \E i \in 1..(j - 1) : dispatched[i] = d

\* ------------------------------------------------------------------ C2
\* C2: when the declarations of the selected components contain a cycle,
\* validate_component_dependencies raises a ConfigurationException that
\* carries a cycle of those declarations, and nothing is dispatched: no
\* build function is called and the backend is never invoked.
C2_CycleFailsBeforeDispatch ==
    (/\ pc # "start"
     /\ selected # <<>>
     /\ Range(selected) \subseteq directories
     /\ ~Acyclic(DeclaredEdges(Range(selected))))
    => /\ pc = "failed"
       /\ error.type = "ConfigurationException"
       /\ IsCycle(error.cycles, DeclaredEdges(Range(selected)))
       /\ dispatched = <<>>
       /\ backend = <<>>

\* A cycle through two components was found and reported.
C2_Witness ==
    /\ pc = "failed"
    /\ error.type = "ConfigurationException"
    /\ Len(error.cycles) >= 2
    /\ IsCycle(error.cycles, DeclaredEdges(Range(selected)))

\* ------------------------------------------------------------------ C3
\* C3: a failed backend call is the last one and ends the run with that
\* component's error; when the k-th component of the build sequence fails,
\* the failure is raised and logged for it, components 1..k-1 are logged as
\* built and their backend calls stay recorded as successful, components
\* k+1..n are never dispatched, and the overall success is not logged.
C3_FailureStopsTheSequence ==
    /\ \A i \in 1..Len(backend) :
          ~backend[i].ok =>
              /\ pc = "failed"
              /\ i = Len(backend)
              /\ error.type = "CalledProcessError"
              /\ error.component = backend[i].component
    /\ (pc = "failed" /\ dispatched # <<>>) =>
          LET k == Len(dispatched)
          IN  /\ dispatched = SubSeq(components, 1, k)
              /\ error # NoError
              /\ log[Len(log)] = Message("error", "Failed to build image", components[k], <<>>)
              /\ \A i \in 1..Len(components) :
                    /\ Logged("success", "Built image", components[i]) <=> i < k
                    /\ i < k => \E b \in 1..Len(backend) :
                                   backend[b].component = components[i] /\ backend[b].ok
                    /\ i > k => \A b \in 1..Len(backend) :
                                   backend[b].component # components[i]
              /\ ~Logged("success", "Built images", "")

\* The second of three components failed in the backend.
C3_Witness ==
    /\ pc = "failed"
    /\ Len(components) = 3
    /\ Len(dispatched) = 2
    /\ error.type = "CalledProcessError"
    /\ Logged("success", "Built image", components[1])

\* ------------------------------------------------------------------ C4
\* C4: when a name of the explicit component list is no component directory,
\* build_components raises a ValueError naming the first such name, with no
\* graph built, no component dispatched and no backend call made.
C4_UnknownComponentFailsFirst ==
    (/\ pc # "start"
     /\ argument # <<>>
     /\ ~(Range(argument) \subseteq directories))
    => /\ pc = "failed"
       /\ error.type = "ValueError"
       /\ error.component \in Range(argument) \ directories
       /\ \A i \in 1..(IndexOf(argument, error.component) - 1) :
             argument[i] \in directories
       /\ component_graph = EmptyGraph
       /\ dispatched = <<>>
       /\ backend = <<>>

\* The missing name came second in the list, after an existing component.
C4_Witness ==
    /\ pc = "failed"
    /\ Len(argument) = 2
    /\ argument[1] \in directories
    /\ error = Raise("ValueError", argument[2], <<>>, <<>>)

\* ------------------------------------------------------------------ C5
\* C5: only selected components are dispatched and none twice; a run that
\* succeeds has dispatched exactly the selected components; a declared
\* dependency of a selected component is a node of the graph and is in the
\* dependencies of the BuildInfo of that component, and is not dispatched
\* unless selected (api and worker both on shared: dependencies = [shared]).
C5_OnlyRequestedDispatched ==
    /\ Range(dispatched) \subseteq Range(selected)
    /\ NoRepeat(dispatched)
    /\ (pc = "done" /\ selected # <<>>) => Range(dispatched) = Range(selected)
    /\ pc \in {"build", "done"} =>
          \A e \in DeclaredEdges(Range(selected)) : e[1] \in Range(component_graph.nodes)
    /\ build_info.component # "" =>
          \A e \in DeclaredEdges({build_info.component}) :
              e[1] \in Range(build_info.dependencies)
    /\ (/\ Range(selected) = {"api", "worker"}
        /\ declared["api"] = <<"shared">>
        /\ declared["worker"] = <<"shared">>
        /\ build_info.component # "")
       => /\ build_info.dependencies = <<"shared">>
          /\ "shared" \notin Range(dispatched)

\* api and worker were requested and built, shared was not.
C5_Witness ==
    /\ pc = "done"
    /\ Range(selected) = {"api", "worker"}
    /\ declared["api"] = <<"shared">>
    /\ declared["worker"] = <<"shared">>
    /\ Range(dispatched) = {"api", "worker"}
    /\ build_info.dependencies = <<"shared">>

\* ------------------------------------------------------------------ C6
\* C6: the dependencies of a BuildInfo list, without repetition, exactly the
\* nodes of the graph with a path to the component, every edge between two
\* of them going from an earlier to a later element, and components is that
\* list followed by the component (worker on shared and api, api on shared:
\* [shared, api, worker]).
C6_DependenciesAreSortedAncestors ==
    build_info.component # "" =>
        LET c == build_info.component
            deps == build_info.dependencies
            E == Range(component_graph.edges)
            paths == Closure(E)
        IN  /\ NoRepeat(deps)
            /\ Range(deps) = {n \in Names : <<n, c>> \in paths}
            /\ \A e \in E :
                  (e[1] \in Range(deps) /\ e[2] \in Range(deps)) =>
                      IndexOf(deps, e[1]) < IndexOf(deps, e[2])
            /\ build_info.components = Append(deps, c)
            /\ (c = "worker" /\ E = {<<"shared", "worker">>, <<"api", "worker">>,
                                     <<"shared", "api">>})
               => build_info.components = <<"shared", "api", "worker">>

\* The example of the claim was built.
C6_Witness ==
    /\ build_info.component = "worker"
    /\ Range(component_graph.edges) = {<<"shared", "worker">>, <<"api", "worker">>,
                                       <<"shared", "api">>}
    /\ build_info.components = <<"shared", "api", "worker">>

\* ------------------------------------------------------------------ C7
\* C7 (as claimed): the dependencies of a BuildInfo are all the components
\* its component depends on through the declarations of the component.yaml
\* files, whatever subset of the components was requested.
C7_CompleteHierarchy ==
    (build_info.component # "" /\ Acyclic(AllDeclared)) =>
        LET depends == Closure(AllDeclared)
        IN  Range(build_info.dependencies) =
                {d \in Names : <<d, build_info.component>> \in depends}

\* ------------------------------------------------------------------ C8
\* C8 (as claimed): user_info.create is image.user.create when that key is
\* set, true or false; otherwise it is true exactly when image.base is not set.
C8_CreateFollowsConfig ==
    (build_info.component # "" /\ ~build_info.user_info.raised) =>
        build_info.user_info.create =
            IF build_info.config.user_create # UNDEFINED
            THEN build_info.config.user_create
            ELSE PyBool(build_info.config.image_base = UNDEFINED)

\* ------------------------------------------------------------------ C9
\* C9 (as claimed): with neither image.base nor image.user.name set,
\* user_info has create true, name "aladdin-user", group and home derived
\* from it when unset, and sudo true exactly when tag_hash is "local".
C9_DefaultUser ==
    (/\ build_info.component # ""
     /\ build_info.config.image_base = UNDEFINED
     /\ build_info.config.user_name = UNDEFINED)
    => /\ ~build_info.user_info.raised
       /\ build_info.user_info.create = "True"
       /\ build_info.user_info.name = "aladdin-user"
       /\ build_info.config.user_group = UNDEFINED
             => build_info.user_info.group = "aladdin-user"
       /\ build_info.config.user_home = UNDEFINED
             => build_info.user_info.home = "/home/aladdin-user"
       /\ build_info.user_info.sudo = "True" <=> tag_hash = "local"

\* C9 (amended): the same, with sudo true exactly when tag_hash is "local"
\* for the configs that do not set image.user.sudo; a config that sets it
\* gets the value it sets.
C9_DefaultUserUnlessSudoSet ==
    (/\ build_info.component # ""
     /\ build_info.config.image_base = UNDEFINED
     /\ build_info.config.user_name = UNDEFINED)
    => /\ ~build_info.user_info.raised
       /\ build_info.user_info.create = "True"
       /\ build_info.user_info.name = "aladdin-user"
       /\ build_info.config.user_group = UNDEFINED
             => build_info.user_info.group = "aladdin-user"
       /\ build_info.config.user_home = UNDEFINED
             => build_info.user_info.home = "/home/aladdin-user"
       /\ IF build_info.config.user_sudo = UNDEFINED
          THEN build_info.user_info.sudo = "True" <=> tag_hash = "local"
          ELSE build_info.user_info.sudo = build_info.config.user_sudo

\* An empty image section resolved for a build that is not local.
C9_Witness ==
    /\ build_info.component = "api"
    /\ build_info.config.image_base = UNDEFINED
    /\ build_info.config.user_name = UNDEFINED
    /\ build_info.config.user_sudo = UNDEFINED
    /\ build_info.config.user_create = UNDEFINED
    /\ tag_hash = "ci"
    /\ build_info.user_info.sudo = "False"
    /\ build_info.user_info.name = "aladdin-user"

\* ----------------------------------------------------------------- C10
\* C10 (as claimed): build_aladdin_component fails with the unsupported
\* version error, with no backend call for the component, exactly when the
\* text of the resolved language version before its first "." is not "3".
C10_MajorVersionMustBeThree ==
    build_info.component # "" =>
        ((/\ error.type = "ValueError"
          /\ error.component = build_info.component
          /\ \A b \in 1..Len(backend) : backend[b].component # build_info.component)
         <=> Major(build_info.language_version) # <<"3">>)

\* ----------------------------------------------------------------- C11
\* C11 (as claimed): when the component.yaml read for a dispatch names a
\* language other than "python", the run fails with the unsupported-language
\* ValueError, which carries the name of the component dispatched and the
\* language; no backend call is made for that component and no further
\* component is dispatched.
C11_UnsupportedLanguageReported ==
    LET language == Or(language_name(component_config), "python")
        component == dispatched[Len(dispatched)]
    IN  language # "python" =>
            /\ pc = "failed"
            /\ position = Len(dispatched)
            /\ error.type = "ValueError"
            /\ error.component = component
            /\ error.value = <<language>>
            /\ \A b \in 1..Len(backend) : backend[b].component # component

\* ----------------------------------------------------------------- C12
\* C12 (as claimed): a call without a component list and with a tag other
\* than "local" does not fail on a docker_images entry that names no
\* component directory, and the components it goes on to build are exactly
\* the directories whose image project-component is in docker_images.
C12_PublishListOnlyRestricts ==
    LET listed == {c \in directories :
                      \E i \in 1..Len(lamp.docker_images) :
                          /\ lamp.docker_images[i].prefix = "proj-"
                          /\ lamp.docker_images[i].rest = c}
    IN  (pc # "start" /\ argument = <<>> /\ tag_hash # "local") =>
            /\ error.type # "ValueError" \/ dispatched # <<>>
            /\ pc \in {"build", "done"} => Range(components) = listed

\* ----------------------------------------------------------------- C13
\* C13 (as claimed): a second run of build_components with the same
\* directories, component.yaml files, lamp, tag_hash and components argument
\* goes through the same build sequence as the first, also when the
\* components are taken from docker_images.
C13_SameSequenceOnRerun ==
    rerun.ran => (rerun.error = "none" /\ rerun.components = components)

====
